---- MODULE Spec2Model ----
(***************************************************************************)
(* Payment webhook processor: idempotent ingestion (receive_webhook), the  *)
(* deferred finalization (process_transaction) and the query endpoint      *)
(* (get_transaction), running in one or more server processes that share   *)
(* the "transactions" table of the store.                                   *)
(*                                                                          *)
(* Every handler is an `async def` whose store calls are synchronous, so    *)
(* inside one server process a handler runs from its first store call to    *)
(* its return with no suspension point; the only await is the sleep of      *)
(* process_transaction.  Server processes interleave with each other at     *)
(* the granularity of one store call.                                       *)
(***************************************************************************)
EXTENDS Integers, Sequences, FiniteSets

\* ------------------------------------------------------------------ bounds
\* Requests (webhooks and queries) the clients send in one run.
MaxRequests == 3
\* Store failures (a call that raises, a record that vanishes) in one run.
MaxFaults == 1
\* The clock runs freely up to MaxTime, and beyond it only while a task sleeps.
MaxTime == 30
\* The step of the clock, in seconds.
TickSeconds == 30

\* ------------------------------------------------------- program constants
SleepSeconds == 30
Accepted == 202
NotFound == 404
ServerError == 500
Ok == 200

Procs == {"w1", "w2"}
Ids == {"t1", "t2"}
Amounts == {1001, 2500}

\* Optional[str] timestamps: None is the empty sequence, a value is <<t>>.
None == << >>
Some(t) == << t >>

\* WebhookRequest bodies that pass validation.
WebhookRequest ==
    [transaction_id : Ids,
     source_account : {"acc_user"},
     destination_account : {"acc_merchant"},
     amount : Amounts,
     currency : {"USD"}]

\* ----------------------------------------------------- request validation
\* The JSON body of a POST: a function from the field names it carries to
\* JSON values, each a record of its JSON type and its value.
Fields ==
    {"transaction_id", "source_account", "destination_account", "amount", "currency"}

JsonString(s) == [type |-> "string", value |-> s]
JsonNumber(n) == [type |-> "number", value |-> n]
JsonNull == [type |-> "null", value |-> "null"]

\* The JSON type each field of WebhookRequest accepts: str, str, str, float, str.
FieldType(f) == IF f = "amount" THEN "number" ELSE "string"

\* The JSON body a client sends for a well-formed payload.
ToJson(body) ==
    [f \in Fields |->
        IF f = "amount" THEN JsonNumber(body[f]) ELSE JsonString(body[f])]

\* The bodies the clients send: every well-formed payload and, for one of
\* them, the body with one field left out, with transaction_id null and with
\* an amount that is no number.
SamplePayload ==
    [transaction_id |-> "t1", source_account |-> "acc_user",
     destination_account |-> "acc_merchant", amount |-> 1001, currency |-> "USD"]

RequestBodies ==
    {ToJson(body) : body \in WebhookRequest}
    \cup {[f \in Fields \ {g} |-> ToJson(SamplePayload)[f]] : g \in Fields}
    \cup {[ToJson(SamplePayload) EXCEPT !["transaction_id"] = JsonNull],
          [ToJson(SamplePayload) EXCEPT !["amount"] = JsonString("abc")]}

\* A plausible slip: the fields are declared Optional, so nothing is rejected.
ValidateOptional(json) == TRUE

\* Validation of the body against WebhookRequest: every field is required
\* and must have its type.
Validate(json) ==
    \A f \in Fields : f \in DOMAIN json /\ json[f].type = FieldType(f)

\* The WebhookRequest built from the body (a field the body lacks reads null).
Parse(json) ==
    [f \in Fields |-> IF f \in DOMAIN json THEN json[f].value ELSE JsonNull.value]

UnprocessableEntity == 422

VARIABLES
    table,      \* the rows of the store's "transactions" table, in insertion order
    pending,    \* per server process: the transaction_record of the receive_webhook
                \* it is running, between the select and the insert (or NoRecord)
    resp,       \* the response sent last, by any process
    tasks,      \* every process_transaction task added to a request's BackgroundTasks
    now,        \* the UTC clock, in seconds
    writes,     \* per id: the latest completed write of the program ("none" before any)
    nreq,       \* requests received so far (webhooks and queries)
    nfault      \* store failures so far

vars == << table, pending, resp, tasks, now, writes, nreq, nfault >>

\* ------------------------------------------------------------- the store
\* .select("*").eq("transaction_id", id).execute().data
StoreSelect(tbl, id) ==
    SelectSeq(tbl, LAMBDA row : row.transaction_id = id)

\* The unique key on transaction_id: an insert of a second row with the same
\* id is rejected by the store.
UniqueViolation(tbl, record) ==
    \E i \in DOMAIN tbl : tbl[i].transaction_id = record.transaction_id

\* A plausible slip: .upsert(record), which overwrites the row of the same id.
StoreUpsert(tbl, record) ==
    IF UniqueViolation(tbl, record)
    THEN [i \in DOMAIN tbl |->
            IF tbl[i].transaction_id = record.transaction_id THEN record ELSE tbl[i]]
    ELSE Append(tbl, record)

\* The table after .insert(record).execute() reached the store: the row is
\* appended, unless the unique key rejects it.
StoreInsert(tbl, record) ==
    IF UniqueViolation(tbl, record) THEN tbl ELSE Append(tbl, record)

\* A plausible slip: the filter names another column and matches no row.
StoreUpdateNoMatch(tbl, id, fields) == tbl

\* A plausible slip: the update also stamps created_at.
StoreUpdateTouchesCreated(tbl, id, fields) ==
    [i \in DOMAIN tbl |->
        IF tbl[i].transaction_id = id
        THEN [tbl[i] EXCEPT !.status = fields.status,
                            !.processed_at = fields.processed_at,
                            !.created_at = fields.processed_at]
        ELSE tbl[i]]

\* A plausible slip: the update is sent without its .eq filter and reaches
\* every row.
StoreUpdateAllRows(tbl, id, fields) ==
    [i \in DOMAIN tbl |->
        [tbl[i] EXCEPT !.status = fields.status,
                       !.processed_at = fields.processed_at]]

\* .update(fields).eq("transaction_id", id).execute(), with fields a record
\* of status and processed_at: every matching row gets the two fields, all
\* other fields and rows stay.  A call that matches no row changes nothing
\* and returns an empty list: it does not raise.
StoreUpdate(tbl, id, fields) ==
    [i \in DOMAIN tbl |->
        IF tbl[i].transaction_id = id
        THEN [tbl[i] EXCEPT !.status = fields.status,
                            !.processed_at = fields.processed_at]
        ELSE tbl[i]]

\* response.data of that update: the rows it matched.
StoreUpdated(tbl, id) == Len(StoreSelect(tbl, id))

\* ------------------------------------------------------- receive_webhook
\* A plausible slip: the handler finalizes before it answers, so the record
\* is stored already processed.
TransactionRecordProcessed(webhook_data, t) ==
    [transaction_id |-> webhook_data.transaction_id,
     source_account |-> webhook_data.source_account,
     destination_account |-> webhook_data.destination_account,
     amount |-> webhook_data.amount,
     currency |-> webhook_data.currency,
     status |-> "PROCESSED",
     created_at |-> Some(t),
     processed_at |-> Some(t)]

\* transaction_record of receive_webhook
TransactionRecord(webhook_data, t) ==
    [transaction_id |-> webhook_data.transaction_id,
     source_account |-> webhook_data.source_account,
     destination_account |-> webhook_data.destination_account,
     amount |-> webhook_data.amount,
     currency |-> webhook_data.currency,
     status |-> "PROCESSING",
     created_at |-> Some(t),
     processed_at |-> None]

\* No record: of a process that runs no handler, of a response without a body.
NoRecord == << >>

\* Before any response.
NoResponse ==
    [kind |-> "none", transaction_id |-> "", result |-> "none",
     code |-> 0, record |-> NoRecord, request |-> NoRecord]

\* A plausible slip: the store calls are awaited, so the process takes other
\* requests while a handler waits between its select and its insert.
BusyNever(p) == FALSE

\* A plausible slip: the delay is a blocking time.sleep, so a process whose
\* task sleeps runs nothing else.
BusyWhileSleeping(p) ==
    \/ pending[p] # NoRecord
    \/ \E t \in DOMAIN tasks : tasks[t].proc = p /\ tasks[t].state = "sleeping"

\* A server process runs one handler at a time: it is busy while its
\* receive_webhook sits between the select and the insert.
Busy(p) == pending[p] # NoRecord

\* A plausible slip: the except branch swallows the error and answers 202.
StatusCodeSwallowed(result) == Accepted

\* The status code receive_webhook answers with, by the way it ended.
\*   Duplicate  existing.data was non-empty       -> return Response(202)
\*   Admitted   insert went through, task added   -> return Response(202)
\*   anything raised inside the try               -> HTTPException(500)
StatusCode(result) ==
    IF result \in {"Duplicate", "Admitted"} THEN Accepted ELSE ServerError

\* A plausible slip: the duplicate branch and the failed insert reprocess too.
AddsTaskAlways(result) == result # "pending"

\* A plausible slip: add_task placed before the insert, so the task is also
\* scheduled when the insert call does not return.
AddsTaskBeforeInsert(result) ==
    result \in {"Admitted", "InsertFailed", "InsertConflict", "InsertLost"}

\* A plausible slip: the duplicate branch does not return and falls through
\* to add_task.
AddsTaskOnDuplicate(result) == result \in {"Admitted", "Duplicate"}

\* Does receive_webhook reach add_task on this outcome?
AddsTask(result) == result = "Admitted"

\* The response of receive_webhook: Response(202) or HTTPException(500).
WebhookResponse(id, result) ==
    [kind |-> "webhook", transaction_id |-> id,
     result |-> result, code |-> StatusCode(result), record |-> NoRecord,
     request |-> NoRecord]

\* A plausible slip: a delivery whose amount is not the stored one is
\* answered as an error instead of as a duplicate.
DuplicateResponseStrict(webhook_data) ==
    [WebhookResponse(webhook_data.transaction_id,
        IF \E i \in DOMAIN table :
               /\ table[i].transaction_id = webhook_data.transaction_id
               /\ table[i].amount # webhook_data.amount
        THEN "Mismatch" ELSE "Duplicate")
        EXCEPT !.request = webhook_data]

\* The answer to a duplicate delivery; request keeps the payload it answers.
DuplicateResponse(webhook_data) ==
    [WebhookResponse(webhook_data.transaction_id, "Duplicate")
        EXCEPT !.request = webhook_data]

Task(p, record) ==
    [proc |-> p, transaction_id |-> record.transaction_id,
     state |-> "scheduled", wake |-> 0, log |-> "none", response |-> 0]

InsertOutcomes == {"stored", "unavailable", "lost"}

\* First half of the handler: the select, and everything up to the insert call.
\* storeOk: whether the store answers the select.
RecvLookup(p, body, storeOk) ==
    /\ ~Busy(p)
    /\ nreq < MaxRequests
    /\ storeOk \/ nfault < MaxFaults
    /\ LET id == body.transaction_id
           existing == StoreSelect(table, id)
           result == IF ~storeOk THEN "LookupFailed"
                     ELSE IF existing # << >> THEN "Duplicate"
                     ELSE "pending"
       IN  /\ pending' = [pending EXCEPT ![p] =
                  IF result = "pending" THEN TransactionRecord(body, now)
                  ELSE NoRecord]
           /\ resp' = IF result = "pending" THEN resp
                      ELSE IF result = "Duplicate" THEN DuplicateResponse(body)
                      ELSE WebhookResponse(id, result)
           /\ tasks' = IF AddsTask(result)
                       THEN Append(tasks, Task(p, TransactionRecord(body, now)))
                       ELSE tasks
    /\ nreq' = nreq + 1
    /\ nfault' = IF storeOk THEN nfault ELSE nfault + 1
    /\ UNCHANGED << table, now, writes >>

\* The 422 the framework answers when the body fails validation: the handler
\* is not called.
ValidationResponse ==
    [kind |-> "webhook", transaction_id |-> "", result |-> "ValidationError",
     code |-> UnprocessableEntity, record |-> NoRecord, request |-> NoRecord]

\* POST /v1/webhooks/transactions with body json: validation, then the handler.
PostWebhook(p, json, storeOk) ==
    IF Validate(json)
    THEN RecvLookup(p, Parse(json), storeOk)
    ELSE /\ ~Busy(p)
         /\ nreq < MaxRequests
         /\ storeOk
         /\ resp' = ValidationResponse
         /\ nreq' = nreq + 1
         /\ UNCHANGED << table, pending, tasks, now, writes, nfault >>

\* Second half: the insert call, add_task and the return.
\* outcome: what the store does with the insert.
\*   "stored"       the row is written and the call returns
\*   "unavailable"  the call raises, nothing is written
\*   "lost"         the row is written but the call raises (timeout on the reply)
\* A unique-key violation is decided by the table, not chosen.
RecvInsert(p, outcome) ==
    /\ Busy(p)
    /\ outcome = "stored" \/ nfault < MaxFaults
    /\ LET record == pending[p]
           conflict == UniqueViolation(table, record)
           result == IF outcome = "unavailable" THEN "InsertFailed"
                     ELSE IF conflict THEN "InsertConflict"
                     ELSE IF outcome = "lost" THEN "InsertLost"
                     ELSE "Admitted"
           reached == outcome # "unavailable"
       IN  /\ table' = IF reached THEN StoreInsert(table, record) ELSE table
           /\ writes' = IF table' # table
                        THEN [writes EXCEPT ![record.transaction_id] = "insert"]
                        ELSE writes
           /\ tasks' = IF AddsTask(result)
                       THEN Append(tasks, Task(p, record))
                       ELSE tasks
           /\ pending' = [pending EXCEPT ![p] = NoRecord]
           /\ resp' = WebhookResponse(record.transaction_id, result)
    /\ nfault' = IF outcome = "stored" THEN nfault ELSE nfault + 1
    /\ UNCHANGED << now, nreq >>

\* --------------------------------------------------- process_transaction
\* The task starts once its response is out: it logs and reaches the sleep.
TaskStart(t) ==
    /\ t \in DOMAIN tasks
    /\ tasks[t].state = "scheduled"
    /\ ~Busy(tasks[t].proc)
    /\ tasks' = [tasks EXCEPT ![t].state = "sleeping",
                              ![t].wake = now + SleepSeconds,
                              ![t].log = "started"]
    /\ UNCHANGED << table, pending, resp, now, writes, nreq, nfault >>

\* A plausible slip: the update forgets processed_at.
StatusOnlyUpdate(t) == [status |-> "PROCESSED", processed_at |-> None]

\* The fields the finalization writes.
ProcessedUpdate(t) == [status |-> "PROCESSED", processed_at |-> Some(t)]

\* After the sleep: the update call and the log line that follows it.
\* storeOk: whether the store answers the update (it raises otherwise).
TaskFinalize(t, storeOk) ==
    /\ t \in DOMAIN tasks
    /\ tasks[t].state = "sleeping"
    /\ tasks[t].wake <= now
    /\ ~Busy(tasks[t].proc)
    /\ storeOk \/ nfault < MaxFaults
    /\ LET id == tasks[t].transaction_id
       IN  IF storeOk
           THEN /\ table' = StoreUpdate(table, id, ProcessedUpdate(now))
                /\ tasks' = [tasks EXCEPT ![t].state = "done",
                                          ![t].wake = 0,
                                          ![t].log = "success",
                                          ![t].response = StoreUpdated(table, id)]
                /\ writes' = IF StoreUpdated(table, id) > 0
                             THEN [writes EXCEPT ![id] = "update"]
                             ELSE writes
           ELSE /\ table' = table
                /\ writes' = writes
                /\ tasks' = [tasks EXCEPT ![t].state = "done",
                                          ![t].wake = 0,
                                          ![t].log = "error"]
    /\ nfault' = IF storeOk THEN nfault ELSE nfault + 1
    /\ UNCHANGED << pending, resp, now, nreq >>

\* ------------------------------------------------------- get_transaction
\* A plausible slip: the empty result is not told from a failure.
GetResponseNoNotFound(id, result, record) ==
    [kind |-> "get", transaction_id |-> id, result |-> result,
     code |-> IF result = "Found" THEN Ok ELSE ServerError,
     record |-> record, request |-> NoRecord]

\* The response of get_transaction: its status code and, on 200, the
\* TransactionResponse built from response.data[0].
GetResponse(id, result, record) ==
    [kind |-> "get", transaction_id |-> id, result |-> result,
     code |-> IF result = "Found" THEN Ok
              ELSE IF result = "NotFound" THEN NotFound ELSE ServerError,
     record |-> record, request |-> NoRecord]

\* A plausible slip: the lookup refreshes the record it finds.
GetTransactionTouches(p, id, storeOk) ==
    /\ ~Busy(p)
    /\ nreq < MaxRequests
    /\ storeOk
    /\ resp' = GetResponse(id, "NotFound", NoRecord)
    /\ table' = StoreUpdate(table, id, ProcessedUpdate(now))
    /\ nreq' = nreq + 1
    /\ UNCHANGED << pending, tasks, now, writes, nfault >>

\* GET /v1/transactions/{transaction_id}: one select and the answer.
GetTransaction(p, id, storeOk) ==
    /\ ~Busy(p)
    /\ nreq < MaxRequests
    /\ storeOk \/ nfault < MaxFaults
    /\ LET data == StoreSelect(table, id)
       IN  resp' =
                IF ~storeOk THEN GetResponse(id, "LookupFailed", NoRecord)
                ELSE IF data = << >> THEN GetResponse(id, "NotFound", NoRecord)
                ELSE GetResponse(id, "Found", data[1])
    /\ nreq' = nreq + 1
    /\ nfault' = IF storeOk THEN nfault ELSE nfault + 1
    /\ UNCHANGED << table, pending, tasks, now, writes >>

\* ------------------------------------------------------------- the clock
Sleeping == \E t \in DOMAIN tasks : tasks[t].state = "sleeping" /\ tasks[t].wake > now

Tick ==
    /\ now < MaxTime \/ Sleeping
    /\ now' = now + TickSeconds
    /\ UNCHANGED << table, pending, resp, tasks, writes, nreq, nfault >>

\* ------------------------------------------------------------------ spec
Init ==
    /\ table = << >>
    /\ pending = [p \in Procs |-> NoRecord]
    /\ resp = NoResponse
    /\ tasks = << >>
    /\ now = 0
    /\ writes = [id \in Ids |-> "none"]
    /\ nreq = 0
    /\ nfault = 0

Next ==
    \/ \E p \in Procs, json \in RequestBodies, storeOk \in BOOLEAN :
          PostWebhook(p, json, storeOk)
    \/ \E p \in Procs, outcome \in InsertOutcomes :
          RecvInsert(p, outcome)
    \/ \E t \in DOMAIN tasks : TaskStart(t)
    \/ \E t \in DOMAIN tasks, storeOk \in BOOLEAN : TaskFinalize(t, storeOk)
    \/ \E p \in Procs, id \in Ids, storeOk \in BOOLEAN : GetTransaction(p, id, storeOk)
    \/ Tick

Spec == Init /\ [][Next]_vars

\* The store is an external collaborator: a row can be removed from it by
\* something other than this program while a finalization is sleeping.
StoreRecordVanishes(id) ==
    /\ nfault < MaxFaults
    /\ StoreSelect(table, id) # << >>
    /\ table' = SelectSeq(table, LAMBDA row : row.transaction_id # id)
    /\ nfault' = nfault + 1
    /\ UNCHANGED << pending, resp, tasks, now, writes, nreq >>

NextVanish ==
    \/ Next
    \/ \E id \in Ids : StoreRecordVanishes(id)

SpecVanish == Init /\ [][NextVanish]_vars

\* The event loop runs every task that is ready, a blocking store call
\* returns or raises, and time passes.
Fairness ==
    /\ WF_vars(Tick)
    /\ WF_vars(\E p \in Procs, outcome \in InsertOutcomes : RecvInsert(p, outcome))
    /\ WF_vars(\E t \in DOMAIN tasks : TaskStart(t))
    /\ WF_vars(\E t \in DOMAIN tasks, storeOk \in BOOLEAN : TaskFinalize(t, storeOk))

\* The liveness specification leaves get_transaction out: it is a read.
NextLive ==
    \/ \E p \in Procs, body \in WebhookRequest, storeOk \in BOOLEAN :
          RecvLookup(p, body, storeOk)
    \/ \E p \in Procs, outcome \in InsertOutcomes :
          RecvInsert(p, outcome)
    \/ \E t \in DOMAIN tasks : TaskStart(t)
    \/ \E t \in DOMAIN tasks, storeOk \in BOOLEAN : TaskFinalize(t, storeOk)
    \/ Tick

LiveSpec == Init /\ [][NextLive]_vars /\ Fairness

\* ============================================================ properties

Rows(id) == StoreSelect(table, id)
TasksFor(id) == {t \in DOMAIN tasks : tasks[t].transaction_id = id}

\* Process p came back from its insert call in this step.
InsertReturned(p) == Busy(p) /\ pending'[p] = NoRecord

\* A receive_webhook returned in this step: after its select (duplicate or
\* failed lookup) or after its insert.  Its response is resp'.
WebhookReturned ==
    \/ nreq' = nreq + 1 /\ pending' = pending /\ resp'.kind = "webhook"
    \/ \E p \in Procs : InsertReturned(p)

\* A get_transaction returned in this step.  Its response is resp'.
GetReturned == nreq' = nreq + 1 /\ pending' = pending /\ resp'.kind = "get"

\* Every row of id in tbl is still in progress (and there is one).
InProgress(tbl, id) ==
    /\ StoreSelect(tbl, id) # << >>
    /\ \A i \in DOMAIN StoreSelect(tbl, id) :
          /\ StoreSelect(tbl, id)[i].status = "PROCESSING"
          /\ StoreSelect(tbl, id)[i].processed_at = None

\* Every row of id is finalized (and there is one).
Processed(id) ==
    /\ Rows(id) # << >>
    /\ \A i \in DOMAIN Rows(id) :
          Rows(id)[i].status = "PROCESSED" /\ Rows(id)[i].processed_at # None

\* The finalization of id ran into a store failure.
FinalizeFailed(id) == \E t \in TasksFor(id) : tasks[t].log = "error"

C2_AtMostOneRun ==
    /\ [](\A id \in Ids : Cardinality(TasksFor(id)) <= 1)
    /\ [][Len(tasks') # Len(tasks) =>
            /\ Len(tasks') = Len(tasks) + 1
            /\ \E p \in Procs : InsertReturned(p)
            /\ resp'.result = "Admitted"
            /\ tasks'[Len(tasks')].transaction_id = resp'.transaction_id
            /\ StoreSelect(table, resp'.transaction_id) = << >>
            /\ Len(StoreSelect(table', resp'.transaction_id)) = 1]_vars

\* A duplicate was answered for an id that has its one task.
C2_Witness ==
    /\ resp.result = "Duplicate"
    /\ Cardinality(TasksFor(resp.transaction_id)) = 1

\* C3: the request that loses the race for the insert (its select saw no
\* record, its insert finds one) writes nothing, schedules nothing and
\* answers 202 like a duplicate.
C3_LoserIsDuplicate ==
    [][\A p \in Procs :
          (/\ InsertReturned(p)
           /\ nfault' = nfault
           /\ StoreSelect(table, pending[p].transaction_id) # << >>) =>
               /\ table' = table
               /\ tasks' = tasks
               /\ resp'.code = Accepted]_vars

\* C4: a row's status only ever goes from PROCESSING to PROCESSED: rows are
\* created PROCESSING, a PROCESSED row stays PROCESSED, and no other value
\* appears.
C4_StatusOnlyForward ==
    /\ [](\A i \in DOMAIN table : table[i].status \in {"PROCESSING", "PROCESSED"})
    /\ [][/\ \A i \in DOMAIN table :
                /\ i \in DOMAIN table'
                /\ table'[i].transaction_id = table[i].transaction_id
                /\ table[i].status = "PROCESSED" => table'[i].status = "PROCESSED"
          /\ \A i \in DOMAIN table' \ DOMAIN table :
                table'[i].status = "PROCESSING"]_vars

\* A processed row, after a later duplicate delivery for it.
C4_Witness ==
    /\ resp.result = "Duplicate"
    /\ Processed(resp.transaction_id)

\* C5: for every row, processed_at is set exactly when status is PROCESSED.
C5_ProcessedAtIffProcessed ==
    \A i \in DOMAIN table :
        (table[i].processed_at # None) <=> (table[i].status = "PROCESSED")

\* One row finalized and another still in progress.
C5_Witness ==
    \E i, j \in DOMAIN table :
        /\ table[i].status = "PROCESSED" /\ table[i].processed_at # None
        /\ table[j].status = "PROCESSING" /\ table[j].processed_at = None

\* C6: a receive_webhook whose select or insert fails answers 500 and
\* schedules nothing; a 202 is only ever answered for an id that has a row.
C6_NoFalseAccept ==
    /\ []((resp.kind = "webhook" /\ resp.code = Accepted)
              => Rows(resp.transaction_id) # << >>)
    /\ [][(WebhookReturned /\ nfault' > nfault) =>
            /\ resp'.code = ServerError
            /\ tasks' = tasks]_vars

\* A failed store call was answered with 500 and left no row.
C6_Witness ==
    /\ resp.result \in {"LookupFailed", "InsertFailed"}
    /\ resp.code = ServerError
    /\ Rows(resp.transaction_id) = << >>

\* C7: a transaction is PROCESSING right after its admission and, when its
\* task is run and the store does not fail its update, it eventually is
\* PROCESSED with processed_at set; each id on its own.
C7_AdmittedEventuallyProcessed ==
    /\ [][((\E p \in Procs : InsertReturned(p)) /\ resp'.result = "Admitted")
                => InProgress(table', resp'.transaction_id)]_vars
    /\ \A id \in Ids :
          (TasksFor(id) # {}) ~> (Processed(id) \/ FinalizeFailed(id))

\* Both ids were admitted and both are processed.
C7_Witness ==
    \A id \in Ids : TasksFor(id) # {} /\ Processed(id)

\* C8: the 202 of an admission is out before the finalization of that id
\* runs: when the handler returns, its task is only scheduled (the sleep has
\* not begun), no time has passed in the step, and the row reads PROCESSING
\* with no processed_at; it stays so while the task has not finalized.
C8_AckBeforeFinalization ==
    /\ [](\A t \in DOMAIN tasks :
            tasks[t].state \in {"scheduled", "sleeping"}
                => InProgress(table, tasks[t].transaction_id))
    /\ [][((\E p \in Procs : InsertReturned(p)) /\ resp'.result = "Admitted") =>
            /\ resp'.code = Accepted
            /\ now' = now
            /\ Len(tasks') = Len(tasks) + 1
            /\ tasks'[Len(tasks')].transaction_id = resp'.transaction_id
            /\ tasks'[Len(tasks')].state = "scheduled"
            /\ InProgress(table', resp'.transaction_id)]_vars

\* An admission was answered 202 while its task has not started.
C8_Witness ==
    /\ resp.result = "Admitted"
    /\ resp.code = Accepted
    /\ \E t \in TasksFor(resp.transaction_id) : tasks[t].state = "scheduled"
    /\ InProgress(table, resp.transaction_id)

\* C9: a finalization whose update did not take effect (the store raised, or
\* no row was left to update) is logged as an error, not as a success, and
\* what is left of the transaction stays PROCESSING.
C9_FailedFinalizationLogged ==
    \A t \in DOMAIN tasks :
        (tasks[t].state = "done" /\ tasks[t].response = 0) =>
            /\ tasks[t].log = "error"
            /\ \A i \in DOMAIN Rows(tasks[t].transaction_id) :
                  Rows(tasks[t].transaction_id)[i].status = "PROCESSING"

\* C10: a get_transaction that the store answers returns 404 for an id with
\* no completed write, PROCESSING after the insert and before the update,
\* and PROCESSED after the update.
C10_LookupMatchesLatestWrite ==
    [][(GetReturned /\ nfault' = nfault) =>
          LET id == resp'.transaction_id
          IN  /\ writes[id] = "none" => resp'.code = NotFound
              /\ writes[id] = "insert" =>
                    /\ resp'.code = Ok
                    /\ resp'.record.status = "PROCESSING"
                    /\ resp'.record.processed_at = None
              /\ writes[id] = "update" =>
                    /\ resp'.code = Ok
                    /\ resp'.record.status = "PROCESSED"
                    /\ resp'.record.processed_at # None]_vars

\* A query answered PROCESSED after an earlier one was possible: the id was
\* admitted, finalized and then read.
C10_Witness ==
    /\ resp.kind = "get"
    /\ resp.code = Ok
    /\ resp.record.status = "PROCESSED"
    /\ writes[resp.transaction_id] = "update"

\* A body with a required field missing or invalid: left out, null, or an
\* amount that is not a number.
MissingOrInvalid(json) ==
    \E f \in Fields :
        \/ f \notin DOMAIN json
        \/ json[f].type = "null"
        \/ f = "amount" /\ json[f].type = "string"

C12_NoTaskWithoutRecord ==
    \A t \in DOMAIN tasks : Rows(tasks[t].transaction_id) # << >>

\* A task has just been scheduled by an admission and has not started; a
\* failed insert for the other id left neither a record nor a task.
C12_Witness ==
    /\ \E t \in DOMAIN tasks :
          tasks[t].state = "scheduled" /\ InProgress(table, tasks[t].transaction_id)
    /\ resp.result = "InsertFailed"
    /\ Rows(resp.transaction_id) = << >>
    /\ TasksFor(resp.transaction_id) = {}

\* C13: a record is changed at most once after its creation: a row only
\* changes while it is PROCESSING with processed_at null, the change sets
\* processed_at, and so a processed_at once set is never overwritten; no row
\* is removed.
C13_FinalizedAtMostOnce ==
    [][/\ Len(table') >= Len(table)
       /\ \A i \in DOMAIN table :
             table'[i] # table[i]
                 => /\ table[i].status = "PROCESSING"
                    /\ table[i].processed_at = None
                    /\ table'[i].processed_at # None]_vars

\* A record was finalized at 30; a later duplicate delivery was answered
\* when the clock stood at 60 and the record still carries 30.
C13_Witness ==
    /\ now >= 2 * SleepSeconds
    /\ resp.result = "Duplicate"
    /\ Processed(resp.transaction_id)
    /\ \A i \in DOMAIN table :
          table[i].transaction_id = resp.transaction_id
              => table[i].processed_at = Some(SleepSeconds)

\* A step of the process_transaction task t: its start or its update.
TaskStepped(t) == t \in DOMAIN tasks /\ tasks'[t] # tasks[t]

\* C14: a step of process_transaction for id X, its failure included, leaves
\* every record of another id and every other task as they were, and when
\* the finalization of X has failed the process still runs the tasks of the
\* other ids: they reach PROCESSED unless their own update fails.
C14_FailureIsolated ==
    /\ [][\A t \in DOMAIN tasks :
             TaskStepped(t)
                 => /\ \A u \in DOMAIN tasks \ {t} : tasks'[u] = tasks[u]
                    /\ Len(table') = Len(table)
                    /\ \A i \in DOMAIN table :
                          table[i].transaction_id # tasks[t].transaction_id
                              => table'[i] = table[i]]_vars
    /\ \A x \in Ids : \A y \in Ids \ {x} :
          (FinalizeFailed(x) /\ TasksFor(y) # {})
              ~> (Processed(y) \/ FinalizeFailed(y))

\* The finalization of one id failed in a process that also finalized the
\* other id, whose record is PROCESSED while the first stays PROCESSING.
C14_Witness ==
    \E t \in DOMAIN tasks, u \in DOMAIN tasks :
        /\ tasks[t].proc = tasks[u].proc
        /\ tasks[t].log = "error"
        /\ tasks[u].log = "success"
        /\ InProgress(table, tasks[t].transaction_id)
        /\ Processed(tasks[u].transaction_id)

\* The fields of a record that are written at its creation only.
CreationFields(record) ==
    << record.transaction_id, record.source_account, record.destination_account,
       record.amount, record.currency, record.created_at >>

\* C15: created_at is set when the record is created (to the time the handler
\* built it, before the insert call) and no later operation
\* changes it; the finalization update, like every other step, leaves
\* transaction_id, source_account, destination_account, amount and currency
\* of every stored record as they were.
C15_CreationFieldsImmutable ==
    [][/\ \A i \in DOMAIN table :
             /\ i \in DOMAIN table'
             /\ CreationFields(table'[i]) = CreationFields(table[i])
       /\ \A i \in DOMAIN table' \ DOMAIN table :
             /\ table'[i].created_at # None
             /\ table'[i].created_at[1] <= now]_vars

\* A record created at 0 was finalized at 30 and still carries created_at 0.
C15_Witness ==
    \E i \in DOMAIN table :
        /\ table[i].status = "PROCESSED"
        /\ table[i].created_at = Some(0)
        /\ table[i].processed_at = Some(SleepSeconds)
        /\ table[i].amount \in Amounts

\* Process p has a finalization suspended in its delay, which has not elapsed.
InDelay(p) ==
    \E t \in DOMAIN tasks :
        tasks[t].proc = p /\ tasks[t].state = "sleeping" /\ tasks[t].wake > now

\* C16: the finalization delay blocks no other work.  While a task of a
\* process is suspended in its delay, and with the clock where it is, the
\* process can take a new delivery for any id, can complete with a 202 the
\* admission it has begun of an id not yet recorded, and can serve a lookup
\* for any id.
C16_DelayDoesNotBlock ==
    \A p \in Procs :
        InDelay(p) =>
            /\ (pending[p] = NoRecord /\ nreq < MaxRequests) =>
                  /\ \A body \in WebhookRequest :
                        ENABLED (RecvLookup(p, body, TRUE) /\ now' = now)
                  /\ \A id \in Ids :
                        ENABLED (GetTransaction(p, id, TRUE) /\ resp'.code # ServerError)
            /\ (pending[p] # NoRecord /\ Rows(pending[p].transaction_id) = << >>) =>
                  ENABLED (RecvInsert(p, "stored") /\ resp'.code = Accepted /\ now' = now)

\* A task of a process sleeps with its delay not elapsed and the same process
\* has acknowledged a delivery for another id with 202, whose task is scheduled.
C16_Witness ==
    \E t \in DOMAIN tasks, u \in DOMAIN tasks :
        /\ t < u
        /\ tasks[t].proc = tasks[u].proc
        /\ tasks[t].state = "sleeping" /\ tasks[t].wake > now
        /\ tasks[u].state = "scheduled"
        /\ tasks[u].transaction_id # tasks[t].transaction_id
        /\ resp.result = "Admitted" /\ resp.code = Accepted
        /\ resp.transaction_id = tasks[u].transaction_id

\* C17: get_transaction is a pure read: for every id, found or not, and
\* also when the store lookup fails, it leaves the store, the handlers in
\* progress and the finalization tasks as they were.
C17_GetIsPureRead ==
    [][GetReturned => UNCHANGED << table, pending, tasks, writes, now >>]_vars

\* A lookup failed on the store while a record was PROCESSING and its task
\* slept: both are still there.
C17_Witness ==
    /\ resp.kind = "get"
    /\ resp.result = "LookupFailed"
    /\ InProgress(table, resp.transaction_id)
    /\ \E t \in TasksFor(resp.transaction_id) : tasks[t].state = "sleeping"

\* The payload differs from the record stored under its transaction_id.
PayloadDiffers(webhook_data) ==
    \E i \in DOMAIN table :
        /\ table[i].transaction_id = webhook_data.transaction_id
        /\ table[i].amount # webhook_data.amount

\* C18: a delivery for an id that is already recorded, whose other fields
\* differ from the stored record, is still a duplicate: it is answered 202,
\* every stored field stays (the first payload wins), no finalization is
\* scheduled and no pending one is restarted or delayed.
C18_DifferingDuplicateIgnored ==
    [][\A p \in Procs, body \in WebhookRequest :
          (PayloadDiffers(body) /\ RecvLookup(p, body, TRUE))
              => /\ resp'.kind = "webhook"
                 /\ resp'.transaction_id = body.transaction_id
                 /\ resp'.code = Accepted
                 /\ UNCHANGED << table, pending, tasks, writes, now >>]_vars

\* A delivery with another amount than the stored one was answered as a
\* duplicate while the record's finalization slept: the record keeps its
\* amount and the task its wake-up time.
C18_Witness ==
    /\ resp.result = "Duplicate"
    /\ resp.code = Accepted
    /\ resp.request # NoRecord
    /\ PayloadDiffers(resp.request)
    /\ InProgress(table, resp.transaction_id)
    /\ \E t \in TasksFor(resp.transaction_id) :
          tasks[t].state = "sleeping" /\ tasks[t].wake = SleepSeconds
    /\ Len(tasks) = 1

\* C19: no record is orphaned by admission: every record that is PROCESSING
\* has a finalization task of its id, pending or run and failed, also when
\* the store made the insert durable but reported a failure to the caller.
C19_NoOrphanedRecord ==
    \A i \in DOMAIN table :
        table[i].status = "PROCESSING" => TasksFor(table[i].transaction_id) # {}

\* Process p has admitted id: the task it scheduled for it is there.
AdmittedBy(p, id) ==
    \E t \in DOMAIN tasks : tasks[t].proc = p /\ tasks[t].transaction_id = id

\* C20: within one server process the lookup, the insert and the scheduling
\* of a request run without another request or task of that process in
\* between: a process starts a lookup only when none of its handlers waits
\* between lookup and insert, its tasks do not step while one does, and a
\* request for an id the process has admitted sees the record and is
\* answered as a duplicate, so two requests for one id in one process never
\* both proceed on 'not found'.
C20_HandlerAtomicInProcess ==
    [][/\ \A p \in Procs, body \in WebhookRequest :
             RecvLookup(p, body, TRUE)
                 => /\ pending[p] = NoRecord
                    /\ AdmittedBy(p, body.transaction_id)
                          => /\ resp'.result = "Duplicate"
                             /\ pending'[p] = NoRecord
       /\ \A p \in Procs :
             pending[p] # NoRecord
                 => /\ pending'[p] \in {pending[p], NoRecord}
                    /\ \A t \in DOMAIN tasks :
                          tasks[t].proc = p => tasks'[t] = tasks[t]]_vars

\* Process q has waited on its insert since before process p admitted an id;
\* a later delivery for that id, which only p could take, was answered as a
\* duplicate.
C20_Witness ==
    \E p \in Procs : \E q \in Procs \ {p} :
        /\ pending[q] # NoRecord
        /\ resp.result = "Duplicate"
        /\ AdmittedBy(p, resp.transaction_id)
        /\ Len(Rows(resp.transaction_id)) = 1
        /\ Rows(resp.transaction_id)[1].created_at[1] > pending[q].created_at[1]

====
